---- MODULE Spec2Model ----
(***************************************************************************)
(* Model of the procedure persistence layer of                             *)
(* src/common/procedure/src/store.rs: the key codec (ParsedKey), the       *)
(* write path (store_procedure, commit_procedure) and the recovery scan    *)
(* (load_messages); of the script cache of src/script/src/manager.rs       *)
(* (ScriptManager); and of the election loop of                            *)
(* src/meta-srv/src/metasrv.rs (MetaSrv::start, MetaSrv::shutdown).        *)
(*                                                                         *)
(* Strings are sequences of one-character strings.  A u32 is a record      *)
(* [hi, lo] of two 16-bit halves (value hi * 65536 + lo), so that the full *)
(* 32-bit range is covered with machine-sized arithmetic.  An Option is a  *)
(* sequence of length 0 (None) or 1 (Some).                                *)
(***************************************************************************)
EXTENDS Integers, Sequences, FiniteSets

VARIABLES store, last, ckey, cinput, cparsed, cpc, callers

\* The ScriptManager: the compiled cache, the scripts table and the call
\* that returned last.
VARIABLES compiled, table, slast

\* The MetaSrv: the started flag, its election ("unset" before new(), then
\* "some" or "none"), the callers of start(), the election loops spawned so far, and whether shutdown()
\* was ever called.
VARIABLES started, election, starters, loops, shut

vars ==
    <<store, last, ckey, cinput, cparsed, cpc, callers, compiled, table, slast,
      started, election, starters, loops, shut>>

\* The ScriptManager takes no step.
ScriptIdle == UNCHANGED <<compiled, table, slast>>

\* The MetaSrv takes no step.
MetaSrvIdle == UNCHANGED <<started, election, starters, loops, shut>>

(***************************************************************************)
(* Bounds of the model.                                                    *)
(***************************************************************************)
\* Steps used by the calls on the store are 0..MaxStep.
MaxStep == 2
\* The store holds at most MaxRecords records.
MaxRecords == 3
\* The codec is exercised on the steps 0..MaxCodecStep and on boundary steps.
MaxCodecStep == 11

(***************************************************************************)
(* Options.                                                                *)
(***************************************************************************)
None == <<>>

Some(x) == <<x>>

IsSome(o) == Len(o) = 1

Unwrap(o) == o[1]

(***************************************************************************)
(* u32 arithmetic on [hi, lo].                                             *)
(***************************************************************************)
Half == 65536

U32(h, l) == [hi |-> h, lo |-> l]

U32FromNat(n) == U32(n \div Half, n % Half)

U32Zero == U32(0, 0)

U32Max == U32(Half - 1, Half - 1)

U32Lt(a, b) == a.hi < b.hi \/ (a.hi = b.hi /\ a.lo < b.lo)

\* Quotient and remainder of a u32 by ten.
U32DivTen(v) ==
    LET t == (v.hi % 10) * Half + v.lo
    IN  [q |-> U32(v.hi \div 10, t \div 10), r |-> t % 10]

\* v * 10 + d as Some u32, or None on overflow (checked_mul / checked_add).
U32MulTenAdd(v, d) ==
    LET l == v.lo * 10 + d
        h == v.hi * 10 + (l \div Half)
    IN  IF h >= Half THEN None ELSE Some(U32(h, l % Half))

(***************************************************************************)
(* Characters and strings.                                                 *)
(***************************************************************************)
DecDigits == <<"0", "1", "2", "3", "4", "5", "6", "7", "8", "9">>

LowerHex == DecDigits \o <<"a", "b", "c", "d", "e", "f">>

UpperHex == DecDigits \o <<"A", "B", "C", "D", "E", "F">>

Range(s) == {s[i] : i \in DOMAIN s}

IndexOf(s, c) == CHOOSE i \in DOMAIN s : s[i] = c

DecChars == Range(DecDigits)

HexChars == Range(LowerHex) \cup Range(UpperHex)

\* The value of each decimal digit and of each hexadecimal digit.
DecValues == [c \in DecChars |-> IndexOf(DecDigits, c) - 1]

HexValues ==
    [c \in HexChars |->
        IF c \in Range(LowerHex) THEN IndexOf(LowerHex, c) - 1
        ELSE IndexOf(UpperHex, c) - 1]

IsDecDigit(c) == c \in DecChars

DigitVal(c) == DecValues[c]

IsHexDigit(c) == c \in HexChars

HexVal(c) == HexValues[c]

\* Lexicographic order of strings, character by character (str::cmp); the
\* characters used in keys are ordered as in ASCII.
CharOrder ==
    <<"+", "-", ".", "/">> \o DecDigits \o <<":">>
    \o <<"A", "B", "C", "D", "E", "F">>
    \o <<"a", "b", "c", "d", "e", "f", "g", "h", "i", "j", "k", "l", "m",
         "n", "o", "p", "q", "r", "s", "t", "u", "v", "w", "x", "y", "z">>
    \o <<"{", "}">>

CharRank == [c \in Range(CharOrder) |-> IndexOf(CharOrder, c)]

CharLt(a, b) == CharRank[a] < CharRank[b]

Min(S) == CHOOSE x \in S : \A y \in S : x <= y

StrLt(a, b) ==
    LET n == IF Len(a) < Len(b) THEN Len(a) ELSE Len(b)
        differ == {i \in 1..n : a[i] # b[i]}
    IN  IF differ = {} THEN Len(a) < Len(b)
        ELSE CharLt(a[Min(differ)], b[Min(differ)])

\* The positions of the separator sep in s.
Positions(s, sep) == {i \in DOMAIN s : s[i] = sep}

\* The number of parts str::split(sep) yields: one more than the separators.
SplitCount(s, sep) == Cardinality(Positions(s, sep)) + 1

\* The position that ends the j-th part (that of the j-th separator, or the
\* end of s), and 0 for j = 0.
SplitCut(s, sep, j) ==
    LET P == Positions(s, sep)
    IN  IF j = 0 THEN 0
        ELSE IF j > Cardinality(P) THEN Len(s) + 1
        ELSE CHOOSE p \in P : Cardinality({q \in P : q < p}) = j - 1

\* The j-th part of str::split(sep).
SplitPart(s, sep, j) == SubSeq(s, SplitCut(s, sep, j - 1) + 1, SplitCut(s, sep, j) - 1)

\* The n-th item of str::rsplit(sep), as an Option (Iterator::next).
RSplitNth(s, sep, n) ==
    IF n <= SplitCount(s, sep) THEN Some(SplitPart(s, sep, SplitCount(s, sep) + 1 - n))
    ELSE None

\* The n-th item of str::split(sep), as an Option.
SplitNth(s, sep, n) ==
    IF n <= SplitCount(s, sep) THEN Some(SplitPart(s, sep, n)) ELSE None

(***************************************************************************)
(* Decimal rendering and parsing of a u32.                                 *)
(***************************************************************************)
RECURSIVE U32Digits(_)
U32Digits(v) ==
    IF v = U32Zero THEN <<>>
    ELSE LET d == U32DivTen(v) IN Append(U32Digits(d.q), DecDigits[d.r + 1])

\* "{}" of a u32.
U32ToString(v) == IF v = U32Zero THEN <<"0">> ELSE U32Digits(v)

Zeros(n) == [i \in 1..n |-> "0"]

\* Minimum width of the step field of a key.
StepWidth == 10

\* "{:0w}" of a u32: zero-padded on the left to at least w characters.
U32ToStringPadded(v, w) ==
    LET s == U32ToString(v) IN Zeros(w - Len(s)) \o s

RECURSIVE U32ParseDigits(_, _)
U32ParseDigits(s, acc) ==
    IF s = <<>> THEN Some(acc)
    ELSE IF ~IsDecDigit(Head(s)) THEN None
    ELSE LET n == U32MulTenAdd(acc, DigitVal(Head(s)))
         IN  IF IsSome(n) THEN U32ParseDigits(Tail(s), Unwrap(n)) ELSE None

\* str::parse::<u32>: an optional leading '+', then one or more decimal
\* digits whose value fits 32 bits.
U32Parse(s) ==
    LET digits == IF s # <<>> /\ Head(s) = "+" THEN Tail(s) ELSE s
    IN  IF digits = <<>> THEN None ELSE U32ParseDigits(digits, U32Zero)

(***************************************************************************)
(* ProcedureId: a 128-bit value, here the sequence of its 32 nibbles.  It  *)
(* is rendered as a lower-case hyphenated UUID (8-4-4-4-12) and parsed     *)
(* from the simple, hyphenated, braced and URN renderings, in either case. *)
(***************************************************************************)
HexToNibbles(s) == [i \in 1..Len(s) |-> HexVal(s[i])]

NibblesToHex(n) == [i \in 1..Len(n) |-> LowerHex[n[i] + 1]]

IdA == HexToNibbles(<<"9", "f", "8", "0", "5", "a", "1", "f", "0", "5", "f", "7", "4", "9", "0", "c", "9", "f", "9", "1", "b", "d", "5", "6", "e", "3", "c", "c", "5", "4", "c", "1">>)

IdB == HexToNibbles(<<"0", "a", "1", "b", "2", "c", "3", "d", "4", "e", "5", "f", "4", "0", "7", "1", "8", "2", "9", "3", "a", "4", "b", "5", "c", "6", "d", "7", "e", "8", "f", "9">>)

ProcedureIds == {IdA, IdB}

ProcedureIdToString(id) ==
    LET h == NibblesToHex(id)
    IN  SubSeq(h, 1, 8) \o <<"-">> \o SubSeq(h, 9, 12) \o <<"-">>
        \o SubSeq(h, 13, 16) \o <<"-">> \o SubSeq(h, 17, 20) \o <<"-">>
        \o SubSeq(h, 21, 32)

AllHex(s) == \A i \in DOMAIN s : IsHexDigit(s[i])

ParseSimpleUuid(s) ==
    IF Len(s) = 32 /\ AllHex(s) THEN Some(HexToNibbles(s)) ELSE None

ParseHyphenatedUuid(s) ==
    IF /\ Len(s) = 36
       /\ \A i \in {9, 14, 19, 24} : s[i] = "-"
    THEN ParseSimpleUuid(SubSeq(s, 1, 8) \o SubSeq(s, 10, 13) \o SubSeq(s, 15, 18)
                         \o SubSeq(s, 20, 23) \o SubSeq(s, 25, 36))
    ELSE None

UrnPrefix == <<"u", "r", "n", ":", "u", "u", "i", "d", ":">>

ProcedureIdParseStr(s) ==
    IF Len(s) = 32 THEN ParseSimpleUuid(s)
    ELSE IF Len(s) = 36 THEN ParseHyphenatedUuid(s)
    ELSE IF Len(s) = 38 /\ s[1] = "{" /\ s[38] = "}"
        THEN ParseHyphenatedUuid(SubSeq(s, 2, 37))
    ELSE IF Len(s) = 45 /\ SubSeq(s, 1, 9) = UrnPrefix
        THEN ParseHyphenatedUuid(SubSeq(s, 10, 45))
    ELSE None

(***************************************************************************)
(* ParsedKey and its codec.                                                *)
(***************************************************************************)
ParsedKey(id, s, c) == [procedure_id |-> id, step |-> s, is_committed |-> c]

StepStr == <<"s", "t", "e", "p">>

CommitStr == <<"c", "o", "m", "m", "i", "t">>

\* The suffix written by Display.
KeySuffix(is_committed) == IF is_committed THEN CommitStr ELSE StepStr

\* Variant of FormatStep: the step is not padded.
FormatStepUnpadded(step) == U32ToString(step)

\* The step field written by Display: "{:010}".
FormatStep(step) == U32ToStringPadded(step, StepWidth)

\* impl fmt::Display for ParsedKey: "{}/{:010}.{}".
ToString(key) ==
    ProcedureIdToString(key.procedure_id) \o <<"/">> \o FormatStep(key.step)
    \o <<".">> \o KeySuffix(key.is_committed)

\* Variant of MatchSuffix: every suffix but "commit" is taken for "step".
MatchSuffixLenient(suffix) == IF suffix = CommitStr THEN Some(TRUE) ELSE Some(FALSE)

\* The match on the suffix in parse_str: Some(is_committed), or None.
MatchSuffix(suffix) ==
    IF suffix = CommitStr THEN Some(TRUE)
    ELSE IF suffix = StepStr THEN Some(FALSE)
    ELSE None

\* Variant of ParseStep: the step is parsed as a signed 32-bit integer.
ParseStepSigned(step_str) ==
    LET v == U32Parse(step_str)
    IN  IF IsSome(v) /\ Unwrap(v).hi >= Half \div 2 THEN None ELSE v

\* step_str.parse().ok()
ParseStep(step_str) == U32Parse(step_str)

\* ParsedKey::parse_str.
ParseStr(input) ==
    LET name == RSplitNth(input, "/", 1)
        id_str == RSplitNth(input, "/", 2)
    IN  IF ~IsSome(name) \/ ~IsSome(id_str) THEN None
        ELSE LET procedure_id == ProcedureIdParseStr(Unwrap(id_str))
                 step_str == SplitNth(Unwrap(name), ".", 1)
                 suffix == SplitNth(Unwrap(name), ".", 2)
             IN  IF ~IsSome(procedure_id) THEN None
                 ELSE IF ~IsSome(step_str) \/ ~IsSome(suffix) THEN None
                 ELSE LET is_committed == MatchSuffix(Unwrap(suffix))
                          step == ParseStep(Unwrap(step_str))
                      IN  IF ~IsSome(is_committed) THEN None
                          ELSE IF ~IsSome(step) THEN None
                          ELSE Some(ParsedKey(Unwrap(procedure_id), Unwrap(step),
                                              Unwrap(is_committed)))

(***************************************************************************)
(* The keys of the calls on the store, formatted and parsed once: the two  *)
(* tables hold the values of ToString and ParseStr on them.                *)
(***************************************************************************)
StoreSteps == {U32FromNat(n) : n \in 0..MaxStep}

StoreKeys ==
    {ParsedKey(id, s, c) : id \in ProcedureIds, s \in StoreSteps, c \in BOOLEAN}

FormattedKeys == [k \in StoreKeys |-> ToString(k)]

\* Keys that other writers leave in the store and the codec does not decode.
UndecodableKeys ==
    { ProcedureIdToString(IdA) \o <<"/">> \o FormatStep(U32Zero)
          \o <<".", "o", "t", "h", "e", "r">>,
      <<"m", "e", "t", "a", "/", "l", "o", "c", "k">> }

ParsedKeys ==
    [input \in {FormattedKeys[k] : k \in StoreKeys} \cup UndecodableKeys |->
        ParseStr(input)]

\* Variant of to_string: the key does not tell a checkpoint from a commit.
ToStringWithoutKind(key) ==
    ProcedureIdToString(key.procedure_id) \o <<"/">> \o FormatStep(key.step)

\* key.to_string()
to_string(key) == IF key \in StoreKeys THEN FormattedKeys[key] ELSE ToString(key)

\* ParsedKey::parse_str(&input)
parse_str(input) ==
    IF input \in DOMAIN ParsedKeys THEN ParsedKeys[input] ELSE ParseStr(input)

(***************************************************************************)
(* ProcedureMessage and its JSON text.  The text is modelled as the        *)
(* sequence of its tokens: punctuation, null and string literals.          *)
(***************************************************************************)
ProcedureMessage(t, d, p) == [type_name |-> t, data |-> d, parent_id |-> p]

LBrace == <<"{">>

RBrace == <<"}">>

Colon == <<":">>

Comma == <<",">>

Null == <<"null">>

StrTok(s) == <<"str", s>>

IsStrTok(t) == Len(t) = 2 /\ t[1] = "str"

TypeNameField == <<"t", "y", "p", "e", "_", "n", "a", "m", "e">>

DataField == <<"d", "a", "t", "a">>

ParentIdField == <<"p", "a", "r", "e", "n", "t", "_", "i", "d">>

\* Serialize for Option<ProcedureId>.
ParentIdToJson(p) == IF IsSome(p) THEN StrTok(ProcedureIdToString(Unwrap(p))) ELSE Null

\* serde_json::to_string(&message).
ToJson(message) ==
    << LBrace, StrTok(TypeNameField), Colon, StrTok(message.type_name), Comma,
       StrTok(DataField), Colon, StrTok(message.data), Comma,
       StrTok(ParentIdField), Colon, ParentIdToJson(message.parent_id), RBrace >>

\* One "name": value member read into the fields collected so far; None
\* on a duplicate field, a value of the wrong type or a bad identifier.
\* Unknown fields are ignored.
ReadMember(acc, name, value) ==
    IF name = TypeNameField THEN
        IF IsSome(acc.type_name) \/ ~IsStrTok(value) THEN None
        ELSE Some([acc EXCEPT !.type_name = Some(value[2])])
    ELSE IF name = DataField THEN
        IF IsSome(acc.data) \/ ~IsStrTok(value) THEN None
        ELSE Some([acc EXCEPT !.data = Some(value[2])])
    ELSE IF name = ParentIdField THEN
        IF IsSome(acc.parent_id) THEN None
        ELSE IF value = Null THEN Some([acc EXCEPT !.parent_id = Some(None)])
        ELSE IF ~IsStrTok(value) THEN None
        ELSE LET id == ProcedureIdParseStr(value[2])
             IN  IF IsSome(id) THEN Some([acc EXCEPT !.parent_id = Some(id)])
                 ELSE None
    ELSE Some(acc)

\* The members of an object, separated by commas.
RECURSIVE ReadMembers(_, _)
ReadMembers(toks, acc) ==
    IF Len(toks) < 3 THEN None
    ELSE IF ~IsStrTok(toks[1]) \/ toks[2] # Colon THEN None
    ELSE IF ~(IsStrTok(toks[3]) \/ toks[3] = Null) THEN None
    ELSE LET next == ReadMember(acc, toks[1][2], toks[3])
         IN  IF ~IsSome(next) THEN None
             ELSE IF Len(toks) = 3 THEN next
             ELSE IF toks[4] # Comma THEN None
             ELSE ReadMembers(SubSeq(toks, 5, Len(toks)), Unwrap(next))

\* serde_json::from_slice::<ProcedureMessage>(value).ok(): type_name and data
\* are required, a missing parent_id is None.
FromJson(value) ==
    IF Len(value) < 2 THEN None
    ELSE IF value[1] # LBrace \/ value[Len(value)] # RBrace THEN None
    ELSE LET body == SubSeq(value, 2, Len(value) - 1)
             empty == [type_name |-> None, data |-> None, parent_id |-> None]
             got == IF body = <<>> THEN Some(empty) ELSE ReadMembers(body, empty)
         IN  IF ~IsSome(got) THEN None
             ELSE LET f == Unwrap(got)
                  IN  IF ~IsSome(f.type_name) \/ ~IsSome(f.data) THEN None
                      ELSE Some(ProcedureMessage(
                               Unwrap(f.type_name), Unwrap(f.data),
                               IF IsSome(f.parent_id) THEN Unwrap(f.parent_id)
                               ELSE None))

(***************************************************************************)
(* Inputs of the calls.                                                    *)
(***************************************************************************)
MockProcedureName == <<"M", "o", "c", "k", "P", "r", "o", "c", "e", "d", "u", "r", "e">>

\* A procedure as store_procedure sees it: type_name() and dump().
Procedure(t, d, ok) == [type_name |-> t, data |-> d, dump_ok |-> ok]

Procedures ==
    { Procedure(MockProcedureName, <<"a">>, TRUE),
      Procedure(MockProcedureName, <<"b">>, TRUE),
      Procedure(MockProcedureName, <<>>, FALSE) }

\* The parent of a procedure is fixed when it is created: the callers pass
\* the same parent_id at every step of one procedure.
ParentOf(id) == IF id = IdB THEN Some(IdA) ELSE None

(***************************************************************************)
(* The payloads of the calls on the store, written and read once: the      *)
(* table holds the values of FromJson on them.                             *)
(***************************************************************************)
StoreValues ==
    {ToJson(ProcedureMessage(p.type_name, p.data, ParentOf(id))) :
        p \in Procedures, id \in ProcedureIds} \cup {<<>>}

\* A payload cut short by a partial write: the text of an envelope without
\* its last token.
Truncated(value) == SubSeq(value, 1, Len(value) - 1)

CorruptValues ==
    {Truncated(ToJson(ProcedureMessage(MockProcedureName, <<"a">>, None)))}

ReadValues == [value \in StoreValues \cup CorruptValues |-> FromJson(value)]

\* serde_json::from_slice(value).ok()
from_slice(value) ==
    IF value \in DOMAIN ReadValues THEN ReadValues[value] ELSE FromJson(value)

\* ProcedureStore::load_one_message.
load_one_message(key, value) == from_slice(value)

(***************************************************************************)
(* The state store: a map from key to value with an atomic put.            *)
(***************************************************************************)
\* StateStore::put: the value is added, or replaces that of the key.
Put(s, key, value) ==
    [k \in DOMAIN s \cup {key} |-> IF k = key THEN value ELSE s[k]]

\* HashMap::new() and HashMap::insert.
EmptyMap == [k \in {} |-> <<>>]

Insert(map, k, v) == [j \in DOMAIN map \cup {k} |-> IF j = k THEN v ELSE map[j]]

\* The permutations of 1..n, for the n the store can hold.
RECURSIVE PermutationsOf(_)
PermutationsOf(S) ==
    IF S = {} THEN {<<>>}
    ELSE UNION {{<<k>> \o t : t \in PermutationsOf(S \ {k})} : k \in S}

Permutations == [n \in 0..MaxRecords |-> PermutationsOf(1..n)]

\* The elements of a set in some fixed order.
RECURSIVE SetToSeq(_)
SetToSeq(S) ==
    IF S = {} THEN <<>>
    ELSE LET x == CHOOSE x \in S : TRUE IN <<x>> \o SetToSeq(S \ {x})

\* The sequence base rearranged by the permutation p.
Arrange(base, p) == [i \in DOMAIN p |-> base[p[i]]]

\* The orders in which walk_top_down may yield the keys of a set.
Orders(S) == {Arrange(SetToSeq(S), p) : p \in Permutations[Cardinality(S)]}

(***************************************************************************)
(* The recovery scan.                                                      *)
(***************************************************************************)
\* Variant of Supersedes: the comparison is reversed.
SupersedesReversed(entry_step, curr_step) == U32Lt(curr_step, entry_step)

\* entry.0.step < curr_key.step: the record read now replaces the tracked one.
Supersedes(entry_step, curr_step) == U32Lt(entry_step, curr_step)

\* Variant of ScanRecord: the record read last always replaces the tracked one.
ScanRecordLastSeen(procedure_key_values, key, value) ==
    LET parsed == parse_str(key)
    IN  IF ~IsSome(parsed) THEN procedure_key_values
        ELSE Insert(procedure_key_values, Unwrap(parsed).procedure_id,
                 <<Unwrap(parsed), value>>)

\* Variant of ScanRecord: the record read first is never replaced.
ScanRecordFirstSeen(procedure_key_values, key, value) ==
    LET parsed == parse_str(key)
    IN  IF ~IsSome(parsed) THEN procedure_key_values
        ELSE IF Unwrap(parsed).procedure_id \in DOMAIN procedure_key_values
        THEN procedure_key_values
        ELSE Insert(procedure_key_values, Unwrap(parsed).procedure_id,
                 <<Unwrap(parsed), value>>)

\* Variant of ScanRecord: a tracked checkpoint is never replaced by a commit
\* record.
ScanRecordCheckpointWins(procedure_key_values, key, value) ==
    LET parsed == parse_str(key)
    IN  IF ~IsSome(parsed) THEN procedure_key_values
        ELSE LET curr_key == Unwrap(parsed)
                 id == curr_key.procedure_id
             IN  IF id \in DOMAIN procedure_key_values
                 THEN IF /\ ~curr_key.is_committed
                         /\ Supersedes(procedure_key_values[id][1].step, curr_key.step)
                      THEN [procedure_key_values EXCEPT ![id] = <<curr_key, value>>]
                      ELSE procedure_key_values
                 ELSE Insert(procedure_key_values, id, <<curr_key, value>>)

\* Variant of ScanRecord: a tracked commit record is never replaced.
ScanRecordCommitWins(procedure_key_values, key, value) ==
    LET parsed == parse_str(key)
    IN  IF ~IsSome(parsed) THEN procedure_key_values
        ELSE LET curr_key == Unwrap(parsed)
                 id == curr_key.procedure_id
             IN  IF id \in DOMAIN procedure_key_values
                 THEN IF \/ curr_key.is_committed
                         \/ /\ ~procedure_key_values[id][1].is_committed
                            /\ Supersedes(procedure_key_values[id][1].step, curr_key.step)
                      THEN [procedure_key_values EXCEPT ![id] = <<curr_key, value>>]
                      ELSE procedure_key_values
                 ELSE Insert(procedure_key_values, id, <<curr_key, value>>)

\* Variant of ScanRecord: the step is compared with the tracked records of
\* all identifiers.
ScanRecordSharedStep(procedure_key_values, key, value) ==
    LET parsed == parse_str(key)
    IN  IF ~IsSome(parsed) THEN procedure_key_values
        ELSE LET curr_key == Unwrap(parsed)
                 id == curr_key.procedure_id
             IN  IF id \in DOMAIN procedure_key_values
                 THEN IF \A j \in DOMAIN procedure_key_values :
                            Supersedes(procedure_key_values[j][1].step, curr_key.step)
                      THEN [procedure_key_values EXCEPT ![id] = <<curr_key, value>>]
                      ELSE procedure_key_values
                 ELSE Insert(procedure_key_values, id, <<curr_key, value>>)

\* Variant of ScanRecord: an undecodable key ends the scan of what was read
\* before it.
ScanRecordStopsAtUndecodable(procedure_key_values, key, value) ==
    LET parsed == parse_str(key)
    IN  IF ~IsSome(parsed) THEN EmptyMap
        ELSE LET curr_key == Unwrap(parsed)
                 id == curr_key.procedure_id
             IN  IF id \in DOMAIN procedure_key_values
                 THEN IF Supersedes(procedure_key_values[id][1].step, curr_key.step)
                      THEN [procedure_key_values EXCEPT ![id] = <<curr_key, value>>]
                      ELSE procedure_key_values
                 ELSE Insert(procedure_key_values, id, <<curr_key, value>>)

\* Variant of ScanRecord: a checkpoint whose payload does not load is not
\* tracked, so that an earlier checkpoint stays.
ScanRecordSkipsCorrupt(procedure_key_values, key, value) ==
    LET parsed == parse_str(key)
    IN  IF ~IsSome(parsed) THEN procedure_key_values
        ELSE LET curr_key == Unwrap(parsed)
                 id == curr_key.procedure_id
             IN  IF ~curr_key.is_committed /\ ~IsSome(load_one_message(curr_key, value))
                 THEN procedure_key_values
                 ELSE IF id \in DOMAIN procedure_key_values
                 THEN IF Supersedes(procedure_key_values[id][1].step, curr_key.step)
                      THEN [procedure_key_values EXCEPT ![id] = <<curr_key, value>>]
                      ELSE procedure_key_values
                 ELSE Insert(procedure_key_values, id, <<curr_key, value>>)

\* The body of the scan loop for one (key, value) on the tracking map
\* procedure_key_values.
ScanRecord(procedure_key_values, key, value) ==
    LET parsed == parse_str(key)
    IN  IF ~IsSome(parsed) THEN procedure_key_values
        ELSE LET curr_key == Unwrap(parsed)
                 id == curr_key.procedure_id
             IN  IF id \in DOMAIN procedure_key_values
                 THEN IF Supersedes(procedure_key_values[id][1].step, curr_key.step)
                      THEN [procedure_key_values EXCEPT ![id] = <<curr_key, value>>]
                      ELSE procedure_key_values
                 ELSE Insert(procedure_key_values, id, <<curr_key, value>>)

\* The scan loop over the yielded records kvs, a sequence of <<key, value>>.
RECURSIVE Scan(_)
Scan(kvs) ==
    IF kvs = <<>> THEN EmptyMap
    ELSE LET n == Len(kvs)
         IN  ScanRecord(Scan(SubSeq(kvs, 1, n - 1)), kvs[n][1], kvs[n][2])

\* The tracked record is resumed: it is a checkpoint whose payload loads.
Resumed(entry) == ~entry[1].is_committed /\ IsSome(load_one_message(entry[1], entry[2]))

\* Variant of CollectMessages: one payload that does not load empties the
\* result.
CollectMessagesAllOrNothing(procedure_key_values) ==
    IF \E i \in DOMAIN procedure_key_values :
           /\ ~procedure_key_values[i][1].is_committed
           /\ ~Resumed(procedure_key_values[i])
    THEN EmptyMap
    ELSE [id \in {i \in DOMAIN procedure_key_values : Resumed(procedure_key_values[i])} |->
            Unwrap(load_one_message(procedure_key_values[id][1],
                                    procedure_key_values[id][2]))]

\* The second loop of load_messages: the messages of the winning records.
CollectMessages(procedure_key_values) ==
    [id \in {i \in DOMAIN procedure_key_values : Resumed(procedure_key_values[i])} |->
        Unwrap(load_one_message(procedure_key_values[id][1], procedure_key_values[id][2]))]

\* The map returned by load_messages when the stream yields kvs.
LoadMessages(kvs) == CollectMessages(Scan(kvs))

(***************************************************************************)
(* The calls on the ProcedureStore.  last is the call that returned last:  *)
(* its arguments, its result and, for load_messages, the keys the stream   *)
(* yielded (walked), whether and where the stream failed (failure) and the *)
(* map returned (messages); for a write that returned Ok, the value its    *)
(* key held when the put was issued (prior).                               *)
(***************************************************************************)
Returned(op, id, step, prior, res, walked, failure, messages) ==
    [op |-> op, id |-> id, step |-> step, prior |-> prior, res |-> res,
     walked |-> walked, failure |-> failure, messages |-> messages]

NoCall == Returned("none", None, None, None, "Ok", <<>>, None, EmptyMap)

\* The value of key in the store s, if any.
Get(s, key) == IF key \in DOMAIN s THEN Some(s[key]) ELSE None

\* No call is in progress: the caller has taken the result of the last one.
Idle == last = NoCall

\* A put of key leaves the store within the bound of the model.
WithinBound(key) == key \in DOMAIN store \/ Cardinality(DOMAIN store) < MaxRecords

\* The codec on its own and the concurrent callers take no step.
CodecIdle == UNCHANGED <<ckey, cinput, cparsed, cpc, callers>> /\ ScriptIdle /\ MetaSrvIdle

\* Variant of store_procedure: the put is issued before dump() is looked at.
store_procedurePutsBeforeDump(procedure_id, step, procedure, parent_id, put_ok) ==
    LET key == to_string(ParsedKey(procedure_id, step, FALSE))
        message == ProcedureMessage(procedure.type_name, procedure.data, parent_id)
    IN  /\ Idle
        /\ WithinBound(key)
        /\ store' = IF put_ok THEN Put(store, key, ToJson(message)) ELSE store
        /\ last' = Returned("store_procedure", Some(procedure_id), Some(step), None,
                             IF ~procedure.dump_ok THEN "DumpErr"
                             ELSE IF ~put_ok THEN "PutErr" ELSE "Ok",
                             <<>>, None, EmptyMap)
        /\ CodecIdle

\* Variant of store_procedure: the checkpoint takes the place of the commit
\* record of the same identifier and step.
store_procedureReplacesCommit(procedure_id, step, procedure, parent_id, put_ok) ==
    LET key == to_string(ParsedKey(procedure_id, step, FALSE))
        commit_key == to_string(ParsedKey(procedure_id, step, TRUE))
        message == ProcedureMessage(procedure.type_name, procedure.data, parent_id)
        kept == [k \in DOMAIN store \ {commit_key} |-> store[k]]
    IN  /\ Idle
        /\ WithinBound(key)
        /\ IF ~procedure.dump_ok
           THEN /\ last' = Returned("store_procedure", Some(procedure_id), Some(step),
                                    None, "DumpErr", <<>>, None, EmptyMap)
                /\ UNCHANGED store
           ELSE IF ~put_ok
           THEN /\ last' = Returned("store_procedure", Some(procedure_id), Some(step),
                                    None, "PutErr", <<>>, None, EmptyMap)
                /\ UNCHANGED store
           ELSE /\ store' = Put(kept, key, ToJson(message))
                /\ last' = Returned("store_procedure", Some(procedure_id), Some(step),
                                    Get(store, key), "Ok", <<>>, None, EmptyMap)
        /\ CodecIdle

\* Variant of store_procedure: a checkpoint that exists is not written again.
store_procedureKeepsExisting(procedure_id, step, procedure, parent_id, put_ok) ==
    LET key == to_string(ParsedKey(procedure_id, step, FALSE))
        message == ProcedureMessage(procedure.type_name, procedure.data, parent_id)
    IN  /\ Idle
        /\ WithinBound(key)
        /\ IF ~procedure.dump_ok
           THEN /\ last' = Returned("store_procedure", Some(procedure_id), Some(step),
                                    None, "DumpErr", <<>>, None, EmptyMap)
                /\ UNCHANGED store
           ELSE IF ~put_ok
           THEN /\ last' = Returned("store_procedure", Some(procedure_id), Some(step),
                                    None, "PutErr", <<>>, None, EmptyMap)
                /\ UNCHANGED store
           ELSE /\ store' = IF key \in DOMAIN store THEN store
                            ELSE Put(store, key, ToJson(message))
                /\ last' = Returned("store_procedure", Some(procedure_id), Some(step),
                                    Get(store, key), "Ok", <<>>, None, EmptyMap)
        /\ CodecIdle

\* ProcedureStore::store_procedure; put_ok is the outcome of the put.
store_procedure(procedure_id, step, procedure, parent_id, put_ok) ==
    LET key == to_string(ParsedKey(procedure_id, step, FALSE))
        message == ProcedureMessage(procedure.type_name, procedure.data, parent_id)
        value == ToJson(message)
    IN  /\ Idle
        /\ WithinBound(key)
        /\ IF ~procedure.dump_ok
           THEN /\ last' = Returned("store_procedure", Some(procedure_id), Some(step),
                                    None, "DumpErr", <<>>, None, EmptyMap)
                /\ UNCHANGED store
           ELSE IF ~put_ok
           THEN /\ last' = Returned("store_procedure", Some(procedure_id), Some(step),
                                    None, "PutErr", <<>>, None, EmptyMap)
                /\ UNCHANGED store
           ELSE /\ store' = Put(store, key, value)
                /\ last' = Returned("store_procedure", Some(procedure_id), Some(step),
                                    Get(store, key), "Ok", <<>>, None, EmptyMap)
        /\ CodecIdle

\* Variant of commit_procedure: the error of the put is dropped.
commit_procedureIgnoresPutError(procedure_id, step, put_ok) ==
    LET key == to_string(ParsedKey(procedure_id, step, TRUE))
    IN  /\ Idle
        /\ WithinBound(key)
        /\ store' = IF put_ok THEN Put(store, key, <<>>) ELSE store
        /\ last' = Returned("commit_procedure", Some(procedure_id), Some(step),
                             Get(store, key), "Ok", <<>>, None, EmptyMap)
        /\ CodecIdle

\* Variant of commit_procedure: the checkpoints of the procedure are removed
\* when it commits.
commit_procedureRemovesCheckpoints(procedure_id, step, put_ok) ==
    LET key == to_string(ParsedKey(procedure_id, step, TRUE))
        checkpoints == {to_string(ParsedKey(procedure_id, s, FALSE)) : s \in StoreSteps}
        kept == [k \in DOMAIN store \ checkpoints |-> store[k]]
    IN  /\ Idle
        /\ WithinBound(key)
        /\ IF ~put_ok
           THEN /\ last' = Returned("commit_procedure", Some(procedure_id), Some(step),
                                    None, "PutErr", <<>>, None, EmptyMap)
                /\ UNCHANGED store
           ELSE /\ store' = Put(kept, key, <<>>)
                /\ last' = Returned("commit_procedure", Some(procedure_id), Some(step),
                                    Get(store, key), "Ok", <<>>, None, EmptyMap)
        /\ CodecIdle

\* ProcedureStore::commit_procedure.
commit_procedure(procedure_id, step, put_ok) ==
    LET key == to_string(ParsedKey(procedure_id, step, TRUE))
    IN  /\ Idle
        /\ WithinBound(key)
        /\ IF ~put_ok
           THEN /\ last' = Returned("commit_procedure", Some(procedure_id), Some(step),
                                    None, "PutErr", <<>>, None, EmptyMap)
                /\ UNCHANGED store
           ELSE /\ store' = Put(store, key, <<>>)
                /\ last' = Returned("commit_procedure", Some(procedure_id), Some(step),
                                    Get(store, key), "Ok", <<>>, None, EmptyMap)
        /\ CodecIdle

\* The records of the store in the order of the keys of walked.
KeyValues(s, walked) == [i \in DOMAIN walked |-> <<walked[i], s[walked[i]]>>]

\* Variant of load_messages: an undecodable key or a payload that does not
\* load is returned as an error.
load_messagesStrict(walked, failure) ==
    /\ Idle
    /\ IF \/ IsSome(failure)
          \/ \E i \in DOMAIN walked : ~IsSome(parse_str(walked[i]))
          \/ \E i \in DOMAIN walked :
                 /\ IsSome(parse_str(walked[i]))
                 /\ ~Unwrap(parse_str(walked[i])).is_committed
                 /\ ~IsSome(from_slice(store[walked[i]]))
       THEN last' = Returned("load_messages", None, None, None, "WalkErr",
                             walked, failure, EmptyMap)
       ELSE last' = Returned("load_messages", None, None, None, "Ok", walked, None,
                             LoadMessages(KeyValues(store, walked)))
    /\ UNCHANGED store
    /\ CodecIdle

\* Variant of load_messages: the records it does not resume are removed.
load_messagesPrunes(walked, failure) ==
    /\ Idle
    /\ IF IsSome(failure)
       THEN /\ last' = Returned("load_messages", None, None, None, "WalkErr",
                                walked, failure, EmptyMap)
            /\ UNCHANGED store
       ELSE /\ last' = Returned("load_messages", None, None, None, "Ok", walked, None,
                                LoadMessages(KeyValues(store, walked)))
            /\ store' = [k \in {j \in DOMAIN store :
                                   /\ IsSome(parse_str(j))
                                   /\ ~Unwrap(parse_str(j)).is_committed
                                   /\ IsSome(from_slice(store[j]))} |-> store[k]]
    /\ CodecIdle

\* ProcedureStore::load_messages.  The stream yields the records of the keys
\* walked, in that order; failure is None when it then ends, and Some(n) when
\* walk_top_down (n = 0) or try_next after n records fails.
load_messages(walked, failure) ==
    /\ Idle
    /\ IF IsSome(failure)
       THEN last' = Returned("load_messages", None, None, None, "WalkErr",
                             walked, failure, EmptyMap)
       ELSE last' = Returned("load_messages", None, None, None, "Ok", walked, None,
                             LoadMessages(KeyValues(store, walked)))
    /\ UNCHANGED store
    /\ CodecIdle

\* A put on the state store by another writer: the store is shared, and
\* load_messages reads whatever it holds.
other_put(key, value) ==
    /\ Idle
    /\ WithinBound(key)
    /\ store' = Put(store, key, value)
    /\ UNCHANGED last
    /\ CodecIdle

(***************************************************************************)
(* Concurrent callers.  The ProcedureStore is Clone and its methods take   *)
(* &self: each caller runs one call, which is suspended at the await of    *)
(* the put; the put itself is one atomic step of the state store.          *)
(***************************************************************************)
Callers == {"c1", "c2", "c3"}

\* A caller before its call, at the await of its put, and after its return.
NotCalled ==
    [pc |-> "idle", op |-> "none", id |-> None, step |-> None,
     key |-> <<>>, value |-> <<>>, res |-> "none"]

AtPut(op, id, step, key, value) ==
    [pc |-> "put", op |-> op, id |-> Some(id), step |-> Some(step),
     key |-> key, value |-> value, res |-> "none"]

Finish(call, res) == [call EXCEPT !.pc = "returned", !.res = res]

\* store_procedure up to self.0.put(&key, value.into_bytes()).
begin_store_procedure(c, procedure_id, step, procedure, parent_id) ==
    LET key == to_string(ParsedKey(procedure_id, step, FALSE))
        message == ProcedureMessage(procedure.type_name, procedure.data, parent_id)
        value == ToJson(message)
        call == AtPut("store_procedure", procedure_id, step, key, value)
    IN  /\ callers[c].pc = "idle"
        /\ callers' = [callers EXCEPT ![c] =
                           IF procedure.dump_ok THEN call ELSE Finish(call, "DumpErr")]
        /\ UNCHANGED <<store, last, ckey, cinput, cparsed, cpc>>
        /\ ScriptIdle /\ MetaSrvIdle

\* commit_procedure up to self.0.put(&key, Vec::new()).
begin_commit_procedure(c, procedure_id, step) ==
    LET key == to_string(ParsedKey(procedure_id, step, TRUE))
    IN  /\ callers[c].pc = "idle"
        /\ callers' = [callers EXCEPT ![c] =
                           AtPut("commit_procedure", procedure_id, step, key, <<>>)]
        /\ UNCHANGED <<store, last, ckey, cinput, cparsed, cpc>>
        /\ ScriptIdle /\ MetaSrvIdle

\* The put of caller c takes effect, or fails, and the call returns.
put_returns(c, put_ok) ==
    /\ callers[c].pc = "put"
    /\ IF put_ok
       THEN /\ store' = Put(store, callers[c].key, callers[c].value)
            /\ callers' = [callers EXCEPT ![c] = Finish(callers[c], "Ok")]
       ELSE /\ UNCHANGED store
            /\ callers' = [callers EXCEPT ![c] = Finish(callers[c], "PutErr")]
    /\ UNCHANGED <<last, ckey, cinput, cparsed, cpc>>
    /\ ScriptIdle /\ MetaSrvIdle

\* The caller takes the result of the call that returned.
Continue ==
    /\ ~Idle
    /\ last' = NoCall
    /\ UNCHANGED store
    /\ CodecIdle

(***************************************************************************)
(* The ScriptManager of src/script/src/manager.rs.  A script is its source *)
(* text; the compiled cache maps a name to the text that was compiled, the *)
(* scripts table maps a name to the text that was inserted.                *)
(***************************************************************************)
ScriptNames == {"test", "other"}

BadScript == "def test(n"

Scripts == {"return n + 1", "return n + 2", BadScript}

\* py_engine.compile(script, ..) succeeds.
Compiles(script) == script # BadScript

\* The call that returned last: its name argument, its result, whether it
\* looked the name up in the table, and the script it executed, if any.
ScriptReturned(op, name, res, looked_up, used) ==
    [op |-> op, name |-> name, res |-> res, looked_up |-> looked_up, used |-> used]

NoScriptCall == ScriptReturned("none", "", "Ok", FALSE, None)

\* The store, the codec and the callers take no step.
ManagerOnly ==
    UNCHANGED <<store, last, ckey, cinput, cparsed, cpc, callers>> /\ MetaSrvIdle

\* ScriptManager::compile: the cache after the call.
compile(cache, name, script) ==
    IF Compiles(script) THEN Insert(cache, name, script) ELSE cache

\* mgr.table.insert(name, script): a script is inserted in the table alone.
table_insert(name, script) ==
    /\ table' = Insert(table, name, script)
    /\ slast' = ScriptReturned("table_insert", name, "Ok", FALSE, None)
    /\ UNCHANGED compiled
    /\ ManagerOnly

\* ScriptManager::insert_and_compile; insert_ok is the outcome of
\* table.insert.
insert_and_compile(name, script, insert_ok) ==
    /\ compiled' = compile(compiled, name, script)
    /\ IF ~Compiles(script)
       THEN /\ slast' = ScriptReturned("insert_and_compile", name, "CompileErr",
                                       FALSE, None)
            /\ UNCHANGED table
       ELSE IF ~insert_ok
       THEN /\ slast' = ScriptReturned("insert_and_compile", name, "InsertErr",
                                       FALSE, None)
            /\ UNCHANGED table
       ELSE /\ table' = Insert(table, name, script)
            /\ slast' = ScriptReturned("insert_and_compile", name, "Ok", FALSE, None)
    /\ ManagerOnly

\* The result of try_find_script_and_compile: find_script_by_name, then
\* compile.
FindAndCompileResult(name, find_ok) ==
    IF ~find_ok \/ name \notin DOMAIN table THEN "FindErr"
    ELSE IF ~Compiles(table[name]) THEN "CompileErr"
    ELSE "Ok"

\* Variant of try_find_script_and_compile: the script is compiled and
\* returned, and not cached.
try_find_script_and_compileUncached(name, find_ok) ==
    /\ slast' = ScriptReturned("try_find_script_and_compile", name,
                               FindAndCompileResult(name, find_ok), TRUE, None)
    /\ UNCHANGED <<compiled, table>>
    /\ ManagerOnly

\* ScriptManager::try_find_script_and_compile; find_ok is the outcome of
\* the query on the table.
try_find_script_and_compile(name, find_ok) ==
    /\ compiled' = IF find_ok /\ name \in DOMAIN table
                   THEN compile(compiled, name, table[name]) ELSE compiled
    /\ slast' = ScriptReturned("try_find_script_and_compile", name,
                               FindAndCompileResult(name, find_ok), TRUE, None)
    /\ UNCHANGED table
    /\ ManagerOnly

\* ScriptManager::execute; exec_ok is the outcome of script.execute.
execute(name, find_ok, exec_ok) ==
    /\ IF name \in DOMAIN compiled
       THEN /\ slast' = ScriptReturned("execute", name,
                                       IF exec_ok THEN "Ok" ELSE "ExecuteErr",
                                       FALSE, Some(compiled[name]))
            /\ UNCHANGED compiled
       ELSE /\ compiled' = IF find_ok /\ name \in DOMAIN table
                           THEN compile(compiled, name, table[name]) ELSE compiled
            /\ slast' =
                   IF FindAndCompileResult(name, find_ok) # "Ok"
                   THEN ScriptReturned("execute", name,
                                       FindAndCompileResult(name, find_ok), TRUE, None)
                   ELSE ScriptReturned("execute", name,
                                       IF exec_ok THEN "Ok" ELSE "ExecuteErr",
                                       TRUE, Some(table[name]))
    /\ UNCHANGED table
    /\ ManagerOnly

(***************************************************************************)
(* The MetaSrv of src/meta-srv/src/metasrv.rs: start(), shutdown() and the *)
(* election loop that start() spawns.  A caller of start() is "idle"       *)
(* before the compare-exchange, "won" between a successful compare-        *)
(* exchange and the spawn, and "done_won" or "done_lost" once it returned. *)
(* A loop is at the test of its while ("check"), inside campaign()         *)
(* ("campaign") or past the while ("stopped"); res is the result of its    *)
(* last campaign().                                                        *)
(***************************************************************************)
Starters == {"s1", "s2", "s3"}

Loop(pc, res) == [pc |-> pc, res |-> res]

\* Every other part of the model takes no step.
MetaSrvOnly ==
    UNCHANGED <<store, last, ckey, cinput, cparsed, cpc, callers>> /\ ScriptIdle

\* MetaSrv::new(.., election, ..): started is false.
new(e) ==
    /\ election = "unset"
    /\ election' = e
    /\ started' = FALSE
    /\ UNCHANGED <<starters, loops, shut>>
    /\ MetaSrvOnly

\* Variant of start_cas: the flag is stored, not compared and exchanged.
start_casStores(s) ==
    /\ election # "unset"
    /\ starters[s] = "idle"
    /\ started' = TRUE
    /\ starters' = [starters EXCEPT ![s] = "won"]
    /\ UNCHANGED <<election, loops, shut>>
    /\ MetaSrvOnly

\* start(): started.compare_exchange(false, true, ..), and the return when
\* it fails.
start_cas(s) ==
    /\ election # "unset"
    /\ starters[s] = "idle"
    /\ IF started = FALSE
       THEN /\ started' = TRUE
            /\ starters' = [starters EXCEPT ![s] = "won"]
       ELSE /\ UNCHANGED started
            /\ starters' = [starters EXCEPT ![s] = "done_lost"]
    /\ UNCHANGED <<election, loops, shut>>
    /\ MetaSrvOnly

\* start() after the compare-exchange: the loop is spawned if there is an
\* election, and start() returns.
start_spawn(s) ==
    /\ starters[s] = "won"
    /\ loops' = IF election = "some" THEN Append(loops, Loop("check", "none"))
                ELSE loops
    /\ starters' = [starters EXCEPT ![s] = "done_won"]
    /\ UNCHANGED <<started, election, shut>>
    /\ MetaSrvOnly

\* shutdown(): started.store(false, ..).
shutdown ==
    /\ election # "unset"
    /\ started' = FALSE
    /\ shut' = TRUE
    /\ UNCHANGED <<election, starters, loops>>
    /\ MetaSrvOnly

\* Variant of loop_check: the loop ends when campaign() returned an error.
loop_checkStopsOnError(l) ==
    /\ loops[l].pc = "check"
    /\ loops' = [loops EXCEPT ![l].pc =
                     IF started /\ loops[l].res # "Err" THEN "campaign" ELSE "stopped"]
    /\ UNCHANGED <<started, election, starters, shut>>
    /\ MetaSrvOnly

\* while started.load(..): the loop calls campaign() or ends.
loop_check(l) ==
    /\ loops[l].pc = "check"
    /\ loops' = [loops EXCEPT ![l].pc = IF started THEN "campaign" ELSE "stopped"]
    /\ UNCHANGED <<started, election, starters, shut>>
    /\ MetaSrvOnly

\* election.campaign().await returns res, Ok or Err; the error is logged.
campaign_returns(l, res) ==
    /\ loops[l].pc = "campaign"
    /\ loops' = [loops EXCEPT ![l] = Loop("check", res)]
    /\ UNCHANGED <<started, election, starters, shut>>
    /\ MetaSrvOnly

(***************************************************************************)
(* The codec on its own: a key is formatted or a foreign key is read, and  *)
(* then parsed.                                                            *)
(***************************************************************************)
CodecSteps ==
    {U32FromNat(n) : n \in 0..MaxCodecStep}
    \cup {U32FromNat(n) : n \in {99, 100, 65535, 65536, 999999999, 1000000000,
                                 2147483647}}
    \cup {U32(32768, 0), U32(Half - 1, Half - 2), U32Max}

IdStrings == {ProcedureIdToString(id) : id \in ProcedureIds}

StepFields == {FormatStep(s) : s \in CodecSteps}

Suffixes == {StepStr, CommitStr}

OtherSuffixes ==
    { <<"o", "t", "h", "e", "r">>, <<"s", "t", "e", "p", "s">>, <<"S", "t", "e", "p">>,
      <<"c", "o", "m", "m", "i", "t", "t", "e", "d">>, <<"s", "t", "e">> }

MalformedIds ==
    { <<"1", "2", "3", "4", "5">>, <<>>,
      <<"9", "f", "8", "0", "5", "a", "1", "f", "-", "0", "5", "f", "7", "-", "4", "9", "0", "c", "-", "9", "f", "9", "1", "-", "b", "d", "5", "6", "e", "3", "c", "c", "5", "4", "c", "g">>,
      <<"9", "f", "8", "0", "5", "a", "1", "f", "-", "0", "5", "f", "7", "-", "4", "9", "0", "c", "-", "9", "f", "9", "1", "-", "b", "d", "5", "6", "e", "3", "c", "c", "5", "4", "c">>,
      <<"9", "f", "8", "0", "5", "a", "1", "f", "0", "5", "f", "7", "-", "4", "9", "0", "c", "-", "9", "f", "9", "1", "-", "b", "d", "5", "6", "e", "3", "c", "c", "5", "4", "c", "1", "-">> }

OtherJoins == {<<"-">>, <<".">>, <<":">>, <<>>}

\* The keys the claims on invalid keys are about.
EmptyInput == {<<>>}

IdAlone == IdStrings

IdBareSlash == {i \o <<"/">> : i \in IdStrings}

NoDot == {i \o <<"/">> \o f : i \in IdStrings, f \in StepFields}

NoSuffix == {i \o <<"/">> \o f \o <<".">> : i \in IdStrings, f \in StepFields}

OtherSuffix ==
    {i \o <<"/">> \o f \o <<".">> \o x :
        i \in IdStrings, f \in StepFields, x \in OtherSuffixes}

BadId ==
    {b \o <<"/">> \o f \o <<".">> \o x :
        b \in MalformedIds, f \in StepFields, x \in Suffixes}

BadJoin ==
    {i \o j \o f \o <<".">> \o x :
        i \in IdStrings, j \in OtherJoins, f \in StepFields, x \in Suffixes}

ExtraStr == <<"e", "x", "t", "r", "a">>

ExtraParts ==
    {i \o <<"/">> \o f \o <<".">> \o x \o <<".">> \o ExtraStr :
        i \in IdStrings, f \in StepFields, x \in Suffixes}

\* Keys in other renderings of the same identifier and step: the step
\* unpadded or signed, the identifier in upper case, without hyphens, braced
\* or as a URN, and a key under a longer path.
ToUpper(str) ==
    [i \in DOMAIN str |->
        IF str[i] \in Range(LowerHex) THEN UpperHex[IndexOf(LowerHex, str[i])]
        ELSE str[i]]

WithoutHyphens(str) == SelectSeq(str, LAMBDA c : c # "-")

OtherIdStrings ==
    UNION {{ToUpper(i), WithoutHyphens(i), <<"{">> \o i \o <<"}">>, UrnPrefix \o i} :
              i \in IdStrings}

OtherStepFields ==
    UNION {{U32ToString(U32FromNat(n)), <<"+">> \o FormatStep(U32FromNat(n))} :
              n \in {0, MaxCodecStep}}

LenientKeys ==
    {i \o <<"/">> \o f \o <<".">> \o x :
        i \in IdStrings, f \in OtherStepFields, x \in Suffixes}
    \cup {i \o <<"/">> \o FormatStep(U32Zero) \o <<".">> \o x :
             i \in OtherIdStrings, x \in Suffixes}
    \cup {<<"p", "/">> \o i \o <<"/">> \o FormatStep(U32Zero) \o <<".">> \o x :
             i \in IdStrings, x \in Suffixes}

ForeignKeys ==
    EmptyInput \cup IdAlone \cup IdBareSlash \cup NoDot \cup NoSuffix
    \cup OtherSuffix \cup BadId \cup BadJoin \cup ExtraParts

StoreIdle == UNCHANGED <<store, last, callers>> /\ ScriptIdle /\ MetaSrvIdle

\* key.to_string()
FormatKey(key) ==
    /\ cpc = "start"
    /\ ckey' = Some(key)
    /\ cinput' = ToString(key)
    /\ cpc' = "formatted"
    /\ UNCHANGED cparsed
    /\ StoreIdle

\* A key that some other writer left in the store.
ReadKey(input) ==
    /\ cpc = "start"
    /\ ckey' = None
    /\ cinput' = input
    /\ cpc' = "read"
    /\ UNCHANGED cparsed
    /\ StoreIdle

\* ParsedKey::parse_str(&input)
ParseKey ==
    /\ cpc \in {"formatted", "read"}
    /\ cparsed' = ParseStr(cinput)
    /\ cpc' = "parsed"
    /\ UNCHANGED <<ckey, cinput>>
    /\ StoreIdle

(***************************************************************************)
(* Specifications.                                                         *)
(***************************************************************************)
Init ==
    /\ store = EmptyMap
    /\ last = NoCall
    /\ ckey = None
    /\ cinput = <<>>
    /\ cparsed = None
    /\ cpc = "start"
    /\ callers = [c \in Callers |-> NotCalled]
    /\ compiled = EmptyMap
    /\ table = EmptyMap
    /\ slast = NoScriptCall
    /\ started = FALSE
    /\ election = "unset"
    /\ starters = [s \in Starters |-> "idle"]
    /\ loops = <<>>
    /\ shut = FALSE

StoreProcedure ==
    \E id \in ProcedureIds, step \in StoreSteps, procedure \in Procedures :
        \E put_ok \in IF procedure.dump_ok THEN BOOLEAN ELSE {TRUE} :
            store_procedure(id, step, procedure, ParentOf(id), put_ok)

CommitProcedure ==
    \E id \in ProcedureIds, step \in StoreSteps, put_ok \in BOOLEAN :
        commit_procedure(id, step, put_ok)

\* The stream ends after all records, in any order, or fails after the
\* first n records of some order.
LoadAll ==
    \/ \E p \in Permutations[Cardinality(DOMAIN store)] :
          load_messages(Arrange(SetToSeq(DOMAIN store), p), None)
    \/ \E n \in 0..Cardinality(DOMAIN store) :
          load_messages(SubSeq(SetToSeq(DOMAIN store), 1, n), Some(n))

Next == StoreProcedure \/ CommitProcedure \/ LoadAll \/ Continue

Spec == Init /\ [][Next]_vars

\* Recovery from a store that also holds records this layer did not write:
\* undecodable keys, and checkpoint records with a corrupt payload.
StoreCheckpoint ==
    \E id \in ProcedureIds, step \in StoreSteps :
        store_procedure(id, step, Procedure(MockProcedureName, <<"a">>, TRUE),
                        ParentOf(id), TRUE)

CommitRecord ==
    \E id \in ProcedureIds, step \in StoreSteps : commit_procedure(id, step, TRUE)

OtherWriter ==
    \E key \in UndecodableKeys, value \in CorruptValues : other_put(key, value)

Corruption ==
    \E id \in ProcedureIds, step \in StoreSteps, value \in CorruptValues :
        other_put(to_string(ParsedKey(id, step, FALSE)), value)

NextRecovery ==
    StoreCheckpoint \/ CommitRecord \/ OtherWriter \/ Corruption \/ LoadAll \/ Continue

SpecRecovery == Init /\ [][NextRecovery]_vars

\* Calls of concurrent callers on an empty store.
BeginStoreProcedure ==
    \E c \in Callers, id \in ProcedureIds, step \in StoreSteps, procedure \in Procedures :
        begin_store_procedure(c, id, step, procedure, ParentOf(id))

BeginCommitProcedure ==
    \E c \in Callers, id \in ProcedureIds, step \in StoreSteps :
        begin_commit_procedure(c, id, step)

PutReturns == \E c \in Callers, put_ok \in BOOLEAN : put_returns(c, put_ok)

NextConcurrent == BeginStoreProcedure \/ BeginCommitProcedure \/ PutReturns

SpecConcurrent == Init /\ [][NextConcurrent]_vars

\* Calls on the ScriptManager.
TableInsert == \E name \in ScriptNames, script \in Scripts : table_insert(name, script)

InsertAndCompile ==
    \E name \in ScriptNames, script \in Scripts, insert_ok \in BOOLEAN :
        insert_and_compile(name, script, insert_ok)

TryFindScriptAndCompile ==
    \E name \in ScriptNames, find_ok \in BOOLEAN : try_find_script_and_compile(name, find_ok)

Execute ==
    \E name \in ScriptNames, find_ok \in BOOLEAN, exec_ok \in BOOLEAN :
        execute(name, find_ok, exec_ok)

NextScript == TableInsert \/ InsertAndCompile \/ TryFindScriptAndCompile \/ Execute

SpecScript == Init /\ [][NextScript]_vars

\* Calls on the MetaSrv and steps of its election loops.
New == \E e \in {"some", "none"} : new(e)

StartCas == \E s \in Starters : start_cas(s)

StartSpawn == \E s \in Starters : start_spawn(s)

Shutdown == shutdown

LoopCheck == \E l \in DOMAIN loops : loop_check(l)

CampaignReturns ==
    \E l \in DOMAIN loops, res \in {"Ok", "Err"} : campaign_returns(l, res)

NextMetaSrv == New \/ StartCas \/ StartSpawn \/ Shutdown \/ LoopCheck \/ CampaignReturns

SpecMetaSrv == Init /\ [][NextMetaSrv]_vars

\* The runtime schedules the spawned loops, and campaign() returns.
SpecMetaSrvFair == SpecMetaSrv /\ WF_vars(LoopCheck) /\ WF_vars(CampaignReturns)

FormatAny ==
    \E id \in ProcedureIds, step \in CodecSteps, c \in BOOLEAN :
        FormatKey(ParsedKey(id, step, c))

ReadAny == \E input \in ForeignKeys \cup LenientKeys : ReadKey(input)

NextCodec == FormatAny \/ ReadAny \/ ParseKey

SpecCodec == Init /\ [][NextCodec]_vars

(***************************************************************************)
(* The store as the claims see it: the records of an identifier are those  *)
(* under the keys that Display writes for it.                              *)
(***************************************************************************)
HasRecord(id, step, c) == to_string(ParsedKey(id, step, c)) \in DOMAIN store

CheckpointSteps(id) == {s \in StoreSteps : HasRecord(id, s, FALSE)}

CommitSteps(id) == {s \in StoreSteps : HasRecord(id, s, TRUE)}

\* The records of id carry pairwise distinct steps.
DistinctSteps(id) == CheckpointSteps(id) \cap CommitSteps(id) = {}

\* Some commit record of id lies above all its checkpoint records.
Finished(id) ==
    \E c \in CommitSteps(id) : \A s \in CheckpointSteps(id) : U32Lt(s, c)

\* The checkpoint step of id that no other record of id reaches, if any.
IsGreatestCheckpoint(id, s) ==
    /\ s \in CheckpointSteps(id)
    /\ \A t \in (CheckpointSteps(id) \cup CommitSteps(id)) \ {s} : U32Lt(t, s)

\* The envelopes store_procedure can be asked to write for id, and the one
\* whose text is the payload of the checkpoint record (id, s).
InputMessages(id) ==
    {ProcedureMessage(p.type_name, p.data, ParentOf(id)) :
        p \in {q \in Procedures : q.dump_ok}}

WrittenMessage(id, s) ==
    CHOOSE m \in InputMessages(id) :
        ToJson(m) = store[to_string(ParsedKey(id, s, FALSE))]

\* load_messages has just returned a map.
Loaded == last.op = "load_messages" /\ last.res = "Ok"

\* What a returned map says of id: None, or Some envelope.
Outcome(messages, id) ==
    IF id \in DOMAIN messages THEN Some(messages[id]) ELSE None

\* The keys of walked that Display writes for id, in the order of walked.
RECURSIVE KeysOfId(_, _)
KeysOfId(walked, id) ==
    IF walked = <<>> THEN <<>>
    ELSE LET rest == KeysOfId(Tail(walked), id)
         IN  IF \E s \in StoreSteps, c \in BOOLEAN :
                    Head(walked) = to_string(ParsedKey(id, s, c))
             THEN <<Head(walked)>> \o rest
             ELSE rest

(***************************************************************************)
(* Claims on the recovery scan.                                            *)
(***************************************************************************)
\* C1: when an identifier has checkpoint records and a commit record at a
\* step above all of them, the map load_messages returns does not contain
\* the identifier.
C1_CommittedAbsent ==
    Loaded =>
        \A id \in ProcedureIds :
            CheckpointSteps(id) # {} /\ Finished(id) => id \notin DOMAIN last.messages

C1_Witness ==
    /\ Loaded
    /\ \E id \in ProcedureIds : CheckpointSteps(id) # {} /\ Finished(id)

\* C2: when an identifier has checkpoint records and no commit record, the
\* map load_messages returns holds for it the envelope written at its
\* greatest step, with that type_name, data and parent_id.
C2_GreatestStepReturned ==
    Loaded =>
        \A id \in ProcedureIds :
            CheckpointSteps(id) # {} /\ CommitSteps(id) = {} =>
                /\ id \in DOMAIN last.messages
                /\ \A s \in StoreSteps :
                       IsGreatestCheckpoint(id, s) =>
                           last.messages[id] = WrittenMessage(id, s)

C2_Witness ==
    /\ Loaded
    /\ \E id \in ProcedureIds :
          /\ CommitSteps(id) = {}
          /\ Cardinality(CheckpointSteps(id)) >= 2
          /\ \E s, t \in CheckpointSteps(id) :
                /\ IsGreatestCheckpoint(id, s)
                /\ WrittenMessage(id, t) # WrittenMessage(id, s)

\* C3 as stated: once a commit record of an identifier is in the store, no
\* load_messages returns the identifier, whatever else was written.
C3_NeverReturnedOnceCommitted ==
    Loaded =>
        \A id \in ProcedureIds : CommitSteps(id) # {} => id \notin DOMAIN last.messages

\* The call that returns in this step wrote a checkpoint of id at a step
\* that no commit record of id exceeds.
WritesCheckpointAtOrAboveCommits(id) ==
    /\ last'.op = "store_procedure"
    /\ last'.res = "Ok"
    /\ last'.id = Some(id)
    /\ \A c \in CommitSteps(id) : ~U32Lt(Unwrap(last'.step), c)

\* C3, amended: once a commit record of an identifier lies above all its
\* checkpoint records, this stays so and no load_messages returns the
\* identifier, until a store_procedure writes a checkpoint of the identifier
\* at a step at or above its commit steps.
C3_FinishedStaysAbsent ==
    [][\A id \in ProcedureIds :
          Finished(id) /\ ~WritesCheckpointAtOrAboveCommits(id) =>
              /\ Finished(id)'
              /\ Loaded' => id \notin DOMAIN last'.messages]_vars

C3_Witness ==
    /\ Loaded
    /\ \E id \in ProcedureIds :
          /\ Finished(id)
          /\ \E c \in CommitSteps(id), s \in CheckpointSteps(id) : U32Lt(s, c)
          /\ \E other \in ProcedureIds \ {id} : other \in DOMAIN last.messages

\* C4: when the records of an identifier carry pairwise distinct steps, the
\* map load_messages returns contains the identifier exactly when its record
\* of greatest step is a checkpoint record.
C4_ActiveIffGreatestIsCheckpoint ==
    Loaded =>
        \A id \in ProcedureIds :
            DistinctSteps(id) =>
                (id \in DOMAIN last.messages
                    <=> \E s \in StoreSteps : IsGreatestCheckpoint(id, s))

C4_Witness ==
    /\ Loaded
    /\ \E id \in ProcedureIds :
          /\ DistinctSteps(id)
          /\ \E c \in CommitSteps(id), s \in CheckpointSteps(id) : U32Lt(c, s)
          /\ id \in DOMAIN last.messages

\* C5: what load_messages returns for an identifier is what it returns when
\* the stream yields the records of that identifier alone, in the same
\* order: the records of the other identifiers do not change it.
C5_IndependentOfOtherIds ==
    Loaded =>
        \A id \in ProcedureIds :
            Outcome(last.messages, id)
                = Outcome(LoadMessages(KeyValues(store, KeysOfId(last.walked, id))), id)

C5_Witness ==
    /\ Loaded
    /\ IdB \in DOMAIN last.messages
    /\ CheckpointSteps(IdA) # {}
    /\ Finished(IdA)
    /\ \E s \in CheckpointSteps(IdA), t \in CheckpointSteps(IdB) : U32Lt(t, s)

\* C6 as stated: for every store content the calls can produce, the map
\* load_messages returns is the one it returns for a fixed order of the
\* records, so it is the same for every order.
C6_SameMapForEveryOrder ==
    Loaded => last.messages = LoadMessages(KeyValues(store, SetToSeq(DOMAIN store)))

\* C6, amended: when no identifier has a checkpoint record and a commit
\* record at the same step, the map load_messages returns is the same for
\* every order in which the stream yields the records.
C6_SameMapForEveryOrderOfDistinctSteps ==
    Loaded /\ (\A id \in ProcedureIds : DistinctSteps(id)) =>
        last.messages = LoadMessages(KeyValues(store, SetToSeq(DOMAIN store)))

C6_Witness ==
    /\ Loaded
    /\ \A id \in ProcedureIds : DistinctSteps(id)
    /\ Cardinality(DOMAIN store) >= 3
    /\ last.walked # SetToSeq(DOMAIN store)
    /\ \E id \in ProcedureIds :
          CommitSteps(id) # {} /\ CheckpointSteps(id) # {}

(***************************************************************************)
(* Claims on the key codec.                                                *)
(***************************************************************************)
\* C7: parsing the key that Display writes for an identifier, a step and a
\* commit flag gives back that identifier, step and flag.
C7_RoundTrip ==
    cpc = "parsed" /\ IsSome(ckey) => cparsed = ckey

C7_Witness ==
    /\ cpc = "parsed"
    /\ IsSome(ckey)
    /\ Unwrap(ckey).step = U32Max
    /\ Unwrap(ckey).is_committed
    /\ cparsed = ckey

\* The step field of a formatted key: the ten characters after the '/'.
StepFieldIsTenDigits(key_str) ==
    /\ Len(key_str) >= 48
    /\ key_str[37] = "/"
    /\ \A i \in 38..47 : IsDecDigit(key_str[i])
    /\ key_str[48] = "."

\* C8: the key of a step sorts before the key of every greater step of the
\* same identifier, whatever the two kinds of record, and the step is written
\* as exactly ten decimal digits.
C8_KeyOrderIsStepOrder ==
    cpc = "formatted" /\ IsSome(ckey) =>
        /\ StepFieldIsTenDigits(cinput)
        /\ \A s \in CodecSteps, c \in BOOLEAN :
               U32Lt(Unwrap(ckey).step, s) =>
                   StrLt(cinput, ToString(ParsedKey(Unwrap(ckey).procedure_id, s, c)))

C8_Witness ==
    /\ cpc = "formatted"
    /\ IsSome(ckey)
    /\ Unwrap(ckey).step = U32FromNat(999999999)
    /\ Unwrap(ckey).is_committed
    /\ StrLt(cinput, ToString(ParsedKey(Unwrap(ckey).procedure_id, U32Max, FALSE)))

\* The keys parse_str is said to reject.
InvalidKeys ==
    EmptyInput \cup IdAlone \cup IdBareSlash \cup NoDot \cup NoSuffix
    \cup OtherSuffix \cup BadId \cup BadJoin

\* C9: parse_str returns None for the empty string, an identifier alone, an
\* identifier and a bare '/', a name part without dot or without suffix, a
\* suffix other than "step" and "commit", a malformed identifier, and an
\* identifier joined to the name part by something other than '/'.
C9_InvalidKeysRejected ==
    cpc = "parsed" /\ cinput \in InvalidKeys => cparsed = None

C9_Witness ==
    /\ cpc = "parsed"
    /\ cinput \in OtherSuffix
    /\ cparsed = None

\* C10: parse_str returns None for a key whose last segment has three
\* dot-separated parts, such as "<id>/0000000003.step.extra".
C10_ExtraPartsRejected ==
    cpc = "parsed" /\ cinput \in ExtraParts => cparsed = None

(***************************************************************************)
(* Claims on recovery from a store with undecodable keys and corrupt       *)
(* payloads.                                                               *)
(***************************************************************************)
\* The keys of walked that the codec decodes, in the order of walked.
Decodable(walked) == SelectSeq(walked, LAMBDA k : IsSome(parse_str(k)))

\* The payload of the checkpoint record (id, s) loads.
LoadsAt(id, s) == IsSome(from_slice(store[to_string(ParsedKey(id, s, FALSE))]))

\* The checkpoint record (id, s) is the one record of id of greatest step.
WinsAt(id, s) ==
    /\ HasRecord(id, s, FALSE)
    /\ ~HasRecord(id, s, TRUE)
    /\ IsGreatestCheckpoint(id, s)

\* The greatest-step record of id is a checkpoint whose payload does not load.
CorruptWinner(id) ==
    \E s \in StoreSteps : HasRecord(id, s, FALSE) /\ ~LoadsAt(id, s) /\ WinsAt(id, s)

\* C11: undecodable keys are skipped without aborting the scan: when the
\* stream ends, load_messages returns Ok and the map it would return if the
\* undecodable keys were not enumerated, wherever they stand in the order.
C11_UndecodableKeysSkipped ==
    last.op = "load_messages" /\ ~IsSome(last.failure) =>
        /\ last.res = "Ok"
        /\ last.messages = LoadMessages(KeyValues(store, Decodable(last.walked)))

C11_Witness ==
    /\ Loaded
    /\ UndecodableKeys \subseteq DOMAIN store
    /\ \E i, j \in DOMAIN last.walked :
           /\ i < j
           /\ last.walked[j] \in UndecodableKeys
           /\ IsSome(parse_str(last.walked[i]))
           /\ Unwrap(parse_str(last.walked[i])).procedure_id \in DOMAIN last.messages

\* C12: a payload that does not load at the greatest-step record of one
\* identifier removes that identifier only: every other identifier whose
\* greatest-step record is a checkpoint with a well-formed payload is
\* returned with the envelope written there.
C12_CorruptPayloadDropsOnlyItsId ==
    Loaded =>
        \A id \in ProcedureIds :
            CorruptWinner(id) =>
                /\ id \notin DOMAIN last.messages
                /\ \A other \in ProcedureIds \ {id}, s \in StoreSteps :
                       WinsAt(other, s) /\ LoadsAt(other, s) =>
                           /\ other \in DOMAIN last.messages
                           /\ last.messages[other] = WrittenMessage(other, s)

C12_Witness ==
    /\ Loaded
    /\ \E id \in ProcedureIds :
           /\ CorruptWinner(id)
           /\ \E other \in ProcedureIds \ {id}, s \in StoreSteps :
                  /\ WinsAt(other, s)
                  /\ LoadsAt(other, s)
                  /\ other \in DOMAIN last.messages

\* C13: load_messages returns an error exactly when the enumeration fails,
\* at its start or at any record, and then returns no map; undecodable keys
\* and payloads that do not load never make it return an error.
C13_ErrorIffEnumerationFails ==
    last.op = "load_messages" =>
        /\ last.res # "Ok" <=> IsSome(last.failure)
        /\ IsSome(last.failure) => last.messages = EmptyMap

C13_Witness ==
    /\ Loaded
    /\ \E k \in UndecodableKeys : k \in Range(last.walked)
    /\ \E id \in ProcedureIds : CorruptWinner(id)

\* C19: when the greatest-step record of an identifier is a checkpoint whose
\* payload does not load, the identifier is not returned, even if it has
\* checkpoints at lower steps whose payloads load.
C19_NoFallbackToEarlierCheckpoint ==
    Loaded =>
        \A id \in ProcedureIds, s \in StoreSteps :
            HasRecord(id, s, FALSE) /\ ~LoadsAt(id, s) /\ WinsAt(id, s) =>
                id \notin DOMAIN last.messages

C19_Witness ==
    /\ Loaded
    /\ \E id \in ProcedureIds, s \in StoreSteps :
           /\ WinsAt(id, s)
           /\ ~LoadsAt(id, s)
           /\ \E t \in CheckpointSteps(id) : U32Lt(t, s) /\ LoadsAt(id, t)

(***************************************************************************)
(* Claims on the write path.                                               *)
(***************************************************************************)
\* The procedures whose dump() fails, and those whose dump() succeeds.
FailingProcedures == {p \in Procedures : ~p.dump_ok}

DumpingProcedures == {p \in Procedures : p.dump_ok}

\* The key of the record the call that returned last is about.
LastKey(is_committed) ==
    to_string(ParsedKey(Unwrap(last.id), Unwrap(last.step), is_committed))

\* C14: when dump() fails, store_procedure returns that error and issues no
\* put: the store is what it was before the call.
C14_DumpFailureWritesNothing ==
    [][last'.op = "store_procedure" =>
          \A procedure \in FailingProcedures, put_ok \in BOOLEAN :
              LET id == Unwrap(last'.id)
                  step == Unwrap(last'.step)
              IN  store_procedure(id, step, procedure, ParentOf(id), put_ok) =>
                      last'.res = "DumpErr" /\ store' = store]_vars

C14_Witness ==
    /\ last.op = "store_procedure"
    /\ last.res = "DumpErr"
    /\ store # EmptyMap

\* C15: store_procedure and commit_procedure return Ok exactly when the put
\* succeeded, and the error of the put when it failed: after Ok the record is
\* in the store with the payload of the call.
C15_OkOnlyAfterPut ==
    [][/\ last'.op = "store_procedure" =>
             \A procedure \in DumpingProcedures, put_ok \in BOOLEAN :
                 LET id == Unwrap(last'.id)
                     step == Unwrap(last'.step)
                     key == to_string(ParsedKey(id, step, FALSE))
                     message == ProcedureMessage(procedure.type_name,
                                                 procedure.data, ParentOf(id))
                 IN  store_procedure(id, step, procedure, ParentOf(id), put_ok) =>
                         /\ last'.res = (IF put_ok THEN "Ok" ELSE "PutErr")
                         /\ put_ok => /\ key \in DOMAIN store'
                                      /\ store'[key] = ToJson(message)
       /\ last'.op = "commit_procedure" =>
             \A put_ok \in BOOLEAN :
                 LET id == Unwrap(last'.id)
                     step == Unwrap(last'.step)
                     key == to_string(ParsedKey(id, step, TRUE))
                 IN  commit_procedure(id, step, put_ok) =>
                         /\ last'.res = (IF put_ok THEN "Ok" ELSE "PutErr")
                         /\ put_ok => /\ key \in DOMAIN store'
                                      /\ store'[key] = <<>>]_vars

C15_Witness ==
    /\ last.op = "commit_procedure"
    /\ last.res = "Ok"
    /\ LastKey(TRUE) \in DOMAIN store
    /\ LastKey(FALSE) \in DOMAIN store

\* C17: no call removes a record: the set of keys of the store only grows.
C17_KeysOnlyGrow == [][DOMAIN store \subseteq DOMAIN store']_vars

C17_Witness ==
    /\ last.op = "commit_procedure"
    /\ last.res = "Ok"
    /\ Cardinality(CheckpointSteps(Unwrap(last.id))) >= 2

\* C18: when two records of an identifier carry the same step, the greatest
\* of the identifier, the one enumerated later is its winning record: the
\* identifier is returned when the checkpoint comes after the commit record
\* and is not returned when the commit record comes after the checkpoint.
C18_LastSeenWinsOnTies ==
    Loaded =>
        \A id \in ProcedureIds, s \in StoreSteps :
            s \in CommitSteps(id) /\ IsGreatestCheckpoint(id, s) =>
                LET checkpoint == IndexOf(last.walked, to_string(ParsedKey(id, s, FALSE)))
                    commit == IndexOf(last.walked, to_string(ParsedKey(id, s, TRUE)))
                IN  (id \in DOMAIN last.messages) <=> (commit < checkpoint)

\* C20: a successful write touches one key: store_procedure adds or
\* overwrites the checkpoint key of (id, step), commit_procedure the commit
\* key of (id, step) with an empty payload, and every other record is left
\* as it was.
C20_OneKeyPerWrite ==
    [][last'.res = "Ok" /\ last'.op \in {"store_procedure", "commit_procedure"} =>
          LET key == to_string(ParsedKey(Unwrap(last'.id), Unwrap(last'.step),
                                         last'.op = "commit_procedure"))
          IN  /\ DOMAIN store' = DOMAIN store \cup {key}
              /\ \A k \in DOMAIN store \ {key} : store'[k] = store[k]
              /\ last'.op = "commit_procedure" => store'[key] = <<>>]_vars

C20_Witness ==
    /\ last.op = "store_procedure"
    /\ last.res = "Ok"
    /\ LastKey(TRUE) \in DOMAIN store
    /\ \E other \in ProcedureIds \ {Unwrap(last.id)} : CheckpointSteps(other) # {}

(***************************************************************************)
(* Claim on concurrent writers.                                            *)
(***************************************************************************)
\* The callers that have called, and the (kind, identifier, step) of a call.
Called == {c \in Callers : callers[c].pc # "idle"}

Triple(c) == <<callers[c].op, callers[c].id, callers[c].step>>

\* C16: concurrent store_procedure and commit_procedure calls with pairwise
\* distinct (identifier, step, kind) do not collide: once they have returned
\* Ok, in whatever order their puts took effect, the store holds one record
\* per call, under the key of the call and with its payload.
C16_DistinctWritesDoNotCollide ==
    /\ \A c \in Called : callers[c].pc = "returned" /\ callers[c].res = "Ok"
    /\ \A c, d \in Called : c # d => Triple(c) # Triple(d)
    =>
    /\ DOMAIN store = {callers[c].key : c \in Called}
    /\ Cardinality(DOMAIN store) = Cardinality(Called)
    /\ \A c \in Called : store[callers[c].key] = callers[c].value

C16_Witness ==
    /\ Called = Callers
    /\ \A c \in Callers : callers[c].pc = "returned" /\ callers[c].res = "Ok"
    /\ \A c, d \in Callers : c # d => Triple(c) # Triple(d)
    /\ \E c, d \in Callers :
           /\ callers[c].op = "store_procedure"
           /\ callers[d].op = "commit_procedure"
           /\ callers[c].id = callers[d].id
           /\ callers[c].step = callers[d].step

DecodedAt(n) == {i \in 1..n : IsSome(parse_str(last.walked[i]))}

DecodedIds(n) == {Unwrap(parse_str(last.walked[i])).procedure_id : i \in DecodedAt(n)}

StepsSeen(id, n) ==
    {Unwrap(parse_str(last.walked[i])).step :
        i \in {j \in DecodedAt(n) :
                  Unwrap(parse_str(last.walked[j])).procedure_id = id}}

\* The tracking map holds what C22 says of it after each of the records n,
\* n + 1, ... of the stream, prev being the map before record n.
RECURSIVE TrackedFrom(_, _)
TrackedFrom(n, prev) ==
    IF n > Len(last.walked) THEN TRUE
    ELSE LET tracked == ScanRecord(prev, last.walked[n], store[last.walked[n]])
             ids == DecodedIds(n)
         IN  /\ DOMAIN tracked = ids
             /\ \A id \in ids :
                    LET step == tracked[id][1].step
                        seen == StepsSeen(id, n)
                    IN  /\ step \in seen
                        /\ \A t \in seen : ~U32Lt(step, t)
                        /\ id \in DOMAIN prev => ~U32Lt(step, prev[id][1].step)
             /\ TrackedFrom(n + 1, tracked)

\* C22: at every point of the scan the tracking map holds one entry for each
\* identifier decoded so far, the step of the entry is the greatest step of
\* the records of the identifier enumerated so far, and it never decreases.
C22_TrackedStepIsGreatestSoFar ==
    last.op = "load_messages" => TrackedFrom(1, Scan(<<>>))

C22_Witness ==
    /\ Loaded
    /\ Len(last.walked) = MaxRecords
    /\ \E k \in UndecodableKeys : k \in Range(last.walked)
    /\ \E i, j \in DOMAIN last.walked :
           /\ i < j
           /\ IsSome(parse_str(last.walked[i]))
           /\ IsSome(parse_str(last.walked[j]))
           /\ Unwrap(parse_str(last.walked[i])).procedure_id
                  = Unwrap(parse_str(last.walked[j])).procedure_id
           /\ U32Lt(Unwrap(parse_str(last.walked[j])).step,
                    Unwrap(parse_str(last.walked[i])).step)

\* C26: load_messages is read-only: whether it returns a map or an error,
\* the store after the call is the store before it.
C26_LoadLeavesStore == [][last'.op = "load_messages" => store' = store]_vars

C26_Witness ==
    /\ Loaded
    /\ \E k \in UndecodableKeys : k \in DOMAIN store
    /\ \E id \in ProcedureIds : CommitSteps(id) # {}
    /\ \E id \in ProcedureIds : CorruptWinner(id)

(***************************************************************************)
(* Claim on the keys the decoder accepts.                                  *)
(***************************************************************************)
\* The key is in the shape Display writes: one '/', an identifier of 36
\* lower-case hexadecimal digits and hyphens, a step field of ten decimal
\* digits and two dot-separated parts.
CanonicalShape(key_str) ==
    /\ SplitCount(key_str, "/") = 2
    /\ StepFieldIsTenDigits(key_str)
    /\ \A i \in 1..36 : key_str[i] \in Range(LowerHex) \cup {"-"}
    /\ SplitCount(SubSeq(key_str, 38, Len(key_str)), ".") = 2

\* C29 as stated: every key that parse_str decodes is the Display encoding
\* of the triple it decodes to.
C29_OnlyCanonicalKeysDecode ==
    cpc = "parsed" /\ IsSome(cparsed) => ToString(Unwrap(cparsed)) = cinput

\* C29 as amended: the triple that parse_str decodes from a key is decoded
\* again from its Display encoding, and the encoding is the key itself when
\* the key is in the shape Display writes.
C29_DecodedTripleReencodes ==
    cpc = "parsed" /\ IsSome(cparsed) =>
        /\ ParseStr(ToString(Unwrap(cparsed))) = cparsed
        /\ CanonicalShape(cinput) => ToString(Unwrap(cparsed)) = cinput

C29_Witness ==
    /\ cpc = "parsed"
    /\ IsSome(cparsed)
    /\ cinput \in LenientKeys
    /\ ToString(Unwrap(cparsed)) # cinput
    /\ ParseStr(ToString(Unwrap(cparsed))) = cparsed

(***************************************************************************)
(* Claims on the ScriptManager.                                            *)
(***************************************************************************)
\* C23: the cache is filled only by a successful compile: an insert in the
\* table alone leaves the cache as it was, every cached script compiles,
\* after try_find_script_and_compile(name) or insert_and_compile(name, ..)
\* returns Ok the cache holds name, and execute(name) on a cached name runs
\* the cached script without a lookup in the table.
C23_CacheFilledByCompile ==
    [][/\ slast'.op = "table_insert" => compiled' = compiled
       /\ \A name \in DOMAIN compiled' : Compiles(compiled'[name])
       /\ /\ slast'.op \in {"try_find_script_and_compile", "insert_and_compile"}
          /\ slast'.res = "Ok"
          => slast'.name \in DOMAIN compiled'
       /\ slast'.op = "execute" /\ slast'.name \in DOMAIN compiled =>
              /\ ~slast'.looked_up
              /\ slast'.used = Some(compiled[slast'.name])]_vars

C23_Witness ==
    /\ slast.op = "execute"
    /\ slast.res = "Ok"
    /\ ~slast.looked_up
    /\ slast.name \in DOMAIN compiled
    /\ slast.name \in DOMAIN table
    /\ table[slast.name] # compiled[slast.name]

\* C28: an insert_and_compile that returns an error, from the compilation or
\* from the insert in the table, leaves the cache as it was.
C28_FailedInsertLeavesCache ==
    [][slast'.op = "insert_and_compile" /\ slast'.res # "Ok" =>
          compiled' = compiled]_vars

(***************************************************************************)
(* Claims on the MetaSrv.                                                  *)
(***************************************************************************)
\* The callers of start() that won the compare-exchange, those that
\* returned, and the loops that have not ended.
Winners == {s \in Starters : starters[s] \in {"won", "done_won"}}

Returners == {s \in Starters : starters[s] \in {"done_won", "done_lost"}}

Alive == {l \in DOMAIN loops : loops[l].pc # "stopped"}

\* C24: with no shutdown() so far, of any number of start() calls, in any
\* interleaving, one wins the compare-exchange and spawns the election loop,
\* and every other call returns without spawning.
C24_OneStartWins ==
    ~shut =>
        /\ Cardinality(Winners) <= 1
        /\ Len(loops) <= 1
        /\ Returners # {} => Cardinality(Winners) = 1
        /\ \A s \in Starters : starters[s] = "done_won" =>
               Len(loops) = (IF election = "some" THEN 1 ELSE 0)

C24_Witness ==
    /\ ~shut
    /\ election = "some"
    /\ Returners = Starters
    /\ Cardinality(Winners) = 1
    /\ Len(loops) = 1

\* C27: at most one election loop is alive at any time, for every
\* interleaving of start() and shutdown() calls.
C27_AtMostOneLoopAlive == Cardinality(Alive) <= 1

\* C25: at its test, a loop calls campaign() again while the flag is true,
\* whatever the last campaign() returned, and ends when the flag is false;
\* once the flag is false and no start() can set it again, every loop ends.
C25_LoopFollowsFlag ==
    /\ [][\A l \in DOMAIN loops :
              loops[l].pc = "check" /\ loops'[l].pc # "check" =>
                  loops'[l].pc = (IF started THEN "campaign" ELSE "stopped")]_vars
    /\ (~started /\ Returners = Starters) ~> (Alive = {})

C25_Witness ==
    /\ ~started
    /\ shut
    /\ \E l \in DOMAIN loops : loops[l].pc = "stopped" /\ loops[l].res = "Err"
    /\ Alive = {}
====
